---------------------------- MODULE Spec2Model ----------------------------
(***************************************************************************)
(* Scope resolution (mcp_clickhouse/config.py) and result filtering        *)
(* (mcp_clickhouse/response_filter.py) of mcp-clickhouse-scoped.           *)
(*                                                                         *)
(* The scope files are modelled as parsed JSON values, the process-wide    *)
(* ALLOWED_TABLES_BY_DB as None or a dict from database name to a set of   *)
(* table names, and a query result as its column names and its rows.       *)
(***************************************************************************)
EXTENDS Integers, Sequences, FiniteSets, TLC

VARIABLES
    fs,                     \* the file system: path -> content of the scope file there
    ALLOWED_TABLES_BY_DB,   \* config.ALLOWED_TABLES_BY_DB
    pc,                     \* "import" | "ready" | "crashed": the process's position
    call,                   \* the arguments of the last load_and_set_scope call
    outcome,                \* what the last load_and_set_scope call did
    log,                    \* the log records the last load_and_set_scope call emitted
    result,                 \* the QueryResult handed to the filter
    fpc,                    \* the filter_result call's position
    flocal,                 \* the filter_result call's local variables
    returned,               \* the row list filter_result returned
    observed,               \* the values the global held while filter_result ran
    refiltered              \* the row list a second filter_result call, on the
                            \* rows the first returned, returned

vars == <<fs, ALLOWED_TABLES_BY_DB, pc, call, outcome, log,
          result, fpc, flocal, returned, observed, refiltered>>

scopeVars == <<fs, ALLOWED_TABLES_BY_DB, pc, call, outcome, log>>
filterVars == <<result, fpc, flocal, returned, observed, refiltered>>

---------------------------------------------------------------------------
(* Bounds of the model.                                                    *)

\* the number of scopes a multi-scope file declares, at most
MaxScopes == 2
\* the number of rows of a query result, at most
MaxRows == 2

---------------------------------------------------------------------------
(* Python values.                                                          *)

\* Python's None, as the value of the global
None == [tag |-> "None"]
\* a Python dict {db: set(tables)}: m is a function from database names to sets
Dict(m) == [tag |-> "dict", m |-> m]
\* the empty dict
EmptyMap == [d \in {} |-> {}]

\* the truth value Python gives the global in `if not config.ALLOWED_TABLES_BY_DB`
ScopeTruthy(a) == a.tag = "dict" /\ DOMAIN a.m # {}

Range(s) == {s[i] : i \in 1..Len(s)}

\* parsed JSON values: null, a list of strings, a string, an object (whose
\* members keep the order of the file, as Python's dict does)
JNull == [t |-> "null"]
JList(s) == [t |-> "list", elems |-> s]
JStr(s) == [t |-> "str", s |-> s]
JObj(members) == [t |-> "obj", items |-> members]
Member(k, v) == [k |-> k, v |-> v]

\* the characters of the strings the model uses as JSON string values
Chars(s) == IF s = "t1" THEN {"t", "1"} ELSE {}

\* the outcome of evaluating a Python expression: a value, or an exception
Ok(v) == [exc |-> FALSE, val |-> v]
Raise == [exc |-> TRUE]

\* bool(v) of a parsed JSON value
Truthy(v) ==
    CASE v.t = "null" -> FALSE
      [] v.t = "list" -> Len(v.elems) > 0
      [] v.t = "str" -> v.s # ""
      [] v.t = "obj" -> Len(v.items) > 0

\* the keys of a dict, in order
Keys(o) == [i \in 1..Len(o.items) |-> o.items[i].k]
HasKey(o, k) == \E i \in 1..Len(o.items) : o.items[i].k = k
\* o[k] for a key the dict has
Lookup(o, k) == o.items[CHOOSE i \in 1..Len(o.items) : o.items[i].k = k].v

\* `k in v`: key membership for a dict, element membership for a list,
\* substring for a string (none of the model's keys is part of one of its
\* strings without being equal to it), TypeError for None
Contains(k, v) ==
    CASE v.t = "obj" -> Ok(HasKey(v, k))
      [] v.t = "list" -> Ok(k \in Range(v.elems))
      [] v.t = "str" -> Ok(k = v.s)
      [] v.t = "null" -> Raise

\* `v[k]` for a string key k: only a dict can be subscripted by a string
Subscript(v, k) ==
    IF v.t = "obj" /\ HasKey(v, k) THEN Ok(Lookup(v, k)) ELSE Raise

\* `v.get(k, {})`: only a dict has .get
GetOrEmpty(v, k) ==
    IF v.t # "obj" THEN Raise
    ELSE IF HasKey(v, k) THEN Ok(Lookup(v, k)) ELSE Ok(JObj(<<>>))

\* set(tables): the elements of a list, the characters of a string, the keys
\* of a dict; TypeError for None
SetOf(v) ==
    CASE v.t = "list" -> Ok(Range(v.elems))
      [] v.t = "str" -> Ok(Chars(v.s))
      [] v.t = "obj" -> Ok(Range(Keys(v)))
      [] v.t = "null" -> Raise

---------------------------------------------------------------------------
(* config.py: the scope files.                                             *)

\* the default scope file's path, and the path of a custom scope file
CONFIG_FILE_PATH == "config/scopes.json"
CustomPath == "custom.json"
Paths == {CONFIG_FILE_PATH, CustomPath}

\* no scope_name / no scope_file given (None, which `if` takes as false)
NoName == ""
NoFile == ""

\* the content of a path: no file there, a file that is not JSON, a JSON file
Missing == [kind |-> "missing"]
Invalid == [kind |-> "invalid"]
Json(v) == [kind |-> "json", value |-> v]

\* what load_scopes_from_json returns (None is JSON's null) and what it logs
load_scopes_from_json(content) ==
    CASE content.kind = "missing" -> [data |-> JNull, log |-> {"file_not_found"}]
      [] content.kind = "invalid" -> [data |-> JNull, log |-> {"invalid_json"}]
      [] content.kind = "json" -> [data |-> content.value, log |-> {}]

\* the dict comprehension with the table names lower-cased
DictCompLowercased(ad) ==
    IF ad.t # "obj" THEN Raise
    ELSE IF \E i \in 1..Len(ad.items) : SetOf(ad.items[i].v).exc THEN Raise
    ELSE Ok(Dict([db \in Range(Keys(ad)) |->
                    {IF x = "T1" THEN "t1" ELSE x : x \in SetOf(Lookup(ad, db)).val}]))

\* {db: set(tables) for db, tables in ad.items()}: AttributeError when ad is
\* no dict, TypeError when a table list is None
DictComp(ad) ==
    IF ad.t # "obj" THEN Raise
    ELSE IF \E i \in 1..Len(ad.items) : SetOf(ad.items[i].v).exc THEN Raise
    ELSE Ok(Dict([db \in Range(Keys(ad)) |-> SetOf(Lookup(ad, db)).val]))

\* {... for db, tables in scope.get('allowed_databases', {}).items()}
ScopeDict(scope) ==
    LET ad == GetOrEmpty(scope, "allowed_databases")
    IN  IF ad.exc THEN Raise ELSE DictComp(ad.val)

\* what a branch of load_and_set_scope does: it assigns the global, leaves it
\* alone, or raises
Assign(d, l) ==
    IF d.exc THEN [act |-> "raise", log |-> l]
    ELSE [act |-> "set", value |-> d.val, log |-> l \cup {"loaded"}]
Keep(l) == [act |-> "keep", log |-> l]
Raised(l) == [act |-> "raise", log |-> l]

\* the scope_file branch taking the scope declared last
FirstScopeByValueLast(scopes, l) ==
    IF scopes.t # "obj" \/ Len(scopes.items) = 0 THEN Raised(l)
    ELSE Assign(ScopeDict(scopes.items[Len(scopes.items)].v), l)

\* next(iter(scopes.values())), then the dict built from it (lines 56-59):
\* AttributeError when scopes is no dict, StopIteration when it is empty
FirstScopeByValue(scopes, l) ==
    IF scopes.t # "obj" \/ Len(scopes.items) = 0 THEN Raised(l)
    ELSE Assign(ScopeDict(scopes.items[1].v), l)

\* next(iter(scopes.keys())), scopes[first_scope_name], then the dict built
\* from it (lines 88-92)
FirstScopeByKey(scopes, l) ==
    IF scopes.t # "obj" \/ Len(scopes.items) = 0 THEN Raised(l)
    ELSE Assign(ScopeDict(Lookup(scopes, Keys(scopes)[1])), l)

\* lines 43-60: the scope_file branch
ScopeFileBranch(content) ==
    LET r == load_scopes_from_json(content)
        data == r.data
    IN  IF ~Truthy(data) THEN Keep(r.log)
        ELSE IF Contains("allowed_databases", data).val
             THEN Assign(ScopeDict(data), r.log)
        ELSE IF Contains("scopes", data).val
             THEN LET scopes == Subscript(data, "scopes")
                  IN  IF scopes.exc THEN Raised(r.log)
                      ELSE FirstScopeByValue(scopes.val, r.log)
        ELSE Keep(r.log)

\* lines 62-74: the scope_name branch
ScopeNameBranch(content, scope_name) ==
    LET r == load_scopes_from_json(content)
        data == r.data
        NotFound == Keep(r.log \cup {"scope_not_found"})
    IN  IF ~Truthy(data) THEN Keep(r.log)
        ELSE IF ~Contains("scopes", data).val THEN NotFound
        ELSE LET scopes == Subscript(data, "scopes")
             IN  IF scopes.exc THEN Raised(r.log)
                 ELSE LET found == Contains(scope_name, scopes.val)
                      IN  IF found.exc THEN Raised(r.log)
                          ELSE IF ~found.val THEN NotFound
                          ELSE LET scope == Subscript(scopes.val, scope_name)
                               IN  IF scope.exc THEN Raised(r.log)
                                   ELSE Assign(ScopeDict(scope.val), r.log)

\* lines 76-93: the default branch
DefaultBranch(content) ==
    LET r == load_scopes_from_json(content)
        data == r.data
    IN  IF ~Truthy(data) THEN Keep(r.log)
        ELSE IF Contains("allowed_databases", data).val
             THEN Assign(ScopeDict(data), r.log)
        ELSE IF Contains("scopes", data).val
             THEN LET scopes == Subscript(data, "scopes")
                  IN  IF scopes.exc THEN Raised(r.log)
                      ELSE FirstScopeByKey(scopes.val, r.log)
        ELSE Keep(r.log)

\* the body of load_and_set_scope(scope_name, scope_file) on the file system f:
\* the custom file takes precedence over the scope name
Resolve(f, scope_name, scope_file) ==
    IF scope_file # NoFile THEN ScopeFileBranch(f[scope_file])
    ELSE IF scope_name # NoName THEN ScopeNameBranch(f[CONFIG_FILE_PATH], scope_name)
    ELSE DefaultBranch(f[CONFIG_FILE_PATH])

\* the file a load_and_set_scope call reads
FileRead(f, c) ==
    IF c.scope_file # NoFile THEN f[c.scope_file] ELSE f[CONFIG_FILE_PATH]

\* the effect of one load_and_set_scope call on the process
DoLoad(scope_name, scope_file) ==
    LET r == Resolve(fs, scope_name, scope_file)
    IN  /\ call' = [scope_name |-> scope_name, scope_file |-> scope_file]
        /\ outcome' = r.act
        /\ log' = r.log
        /\ ALLOWED_TABLES_BY_DB' =
               IF r.act = "set" THEN r.value ELSE ALLOWED_TABLES_BY_DB
        /\ pc' = IF r.act = "raise" THEN "crashed" ELSE "ready"
        /\ observed' = IF fpc \in {"idle", "done"} THEN observed
                       ELSE observed \cup {ALLOWED_TABLES_BY_DB'}
        /\ UNCHANGED <<fs, result, fpc, flocal, returned, refiltered>>

\* line 96: the module's import calls load_and_set_scope()
Import ==
    /\ pc = "import"
    /\ DoLoad(NoName, NoFile)

\* a call of load_and_set_scope (main.py lines 26-34, or a later re-initialization)
load_and_set_scope(scope_name, scope_file) ==
    /\ pc = "ready"
    /\ DoLoad(scope_name, scope_file)

---------------------------------------------------------------------------
(* The scope files the model draws from.                                   *)

\* values of 'allowed_databases'
MapA == JObj(<<Member("db1", JList(<<"t1">>))>>)
MapB == JObj(<<Member("db1", JList(<<"t2", "T1">>)), Member("DB2", JList(<<>>))>>)
MapC == JObj(<<Member("db2", JList(<<"t1">>))>>)
MapEmpty == JObj(<<>>)
MapNullTables == JObj(<<Member("db1", JNull)>>)
MapStrTables == JObj(<<Member("db1", JStr("t1"))>>)

\* a scope of a multi-scope file
ScopeOf(ad) == JObj(<<Member("allowed_databases", ad)>>)
ScopeWithoutKey == JObj(<<Member("description", JStr("t1"))>>)
ScopeBodies == {ScopeOf(MapA), ScopeOf(MapB), ScopeOf(MapNullTables), ScopeWithoutKey}

\* a file of the legacy shape (line 48) and of the multi-scope shape (line 54)
Legacy(ad) == Json(JObj(<<Member("allowed_databases", ad)>>))
Multi(members) == Json(JObj(<<Member("scopes", JObj(members))>>))

ScopeName == <<"prod", "dev", "qa", "test">>
ScopeNames == {ScopeName[i] : i \in 1..MaxScopes}

\* the declared orderings of up to MaxScopes distinct scope names
NameSeqs ==
    {ns \in UNION {[1..n -> ScopeNames] : n \in 0..MaxScopes} :
        \A i, j \in 1..Len(ns) : ns[i] = ns[j] => i = j}

MultiFiles ==
    UNION {{Multi([i \in 1..Len(ns) |-> Member(ns[i], b[i])]) :
                b \in [1..Len(ns) -> ScopeBodies]} : ns \in NameSeqs}

LegacyFiles ==
    {Legacy(ad) : ad \in {MapA, MapB, MapC, MapEmpty, MapNullTables, MapStrTables, JNull}}

OtherFiles ==
    {Missing, Invalid,
     Json(JNull),
     Json(JObj(<<>>)),
     Json(JObj(<<Member("version", JStr("t1"))>>)),
     Json(JObj(<<Member("scopes", JNull)>>)),
     Multi(<<Member("prod", JNull)>>),
     Json(JObj(<<Member("allowed_databases", MapA),
                 Member("scopes", JObj(<<Member("prod", ScopeOf(MapB))>>))>>))}

FileContents == MultiFiles \cup LegacyFiles \cup OtherFiles

\* a few files, enough to put the global in each kind of prior state
FewFiles ==
    {Missing, Legacy(MapA), Legacy(MapEmpty),
     Multi(<<Member("prod", ScopeOf(MapB)), Member("dev", ScopeOf(MapA))>>)}

FileSystem(d, c) == (CONFIG_FILE_PATH :> d) @@ (CustomPath :> c)

---------------------------------------------------------------------------
(* The filter's variables when no filter_result call is running.           *)

NoResult == [column_names |-> <<>>, result_rows |-> <<>>]
NoLocals == [fingerprint |-> "", i |-> 0, valid_databases |-> {}, kept |-> <<>>]

FilterIdle ==
    /\ result = NoResult
    /\ fpc = "idle"
    /\ flocal = NoLocals
    /\ returned = <<>>
    /\ observed = {}
    /\ refiltered = <<>>

ProcessStart ==
    /\ ALLOWED_TABLES_BY_DB = None
    /\ pc = "import"
    /\ call = [scope_name |-> NoName, scope_file |-> NoFile]
    /\ outcome = "none"
    /\ log = {}

---------------------------------------------------------------------------
(* Scope resolution alone: every scope file against every selector.  One   *)
(* of the two files ranges over all of FileContents, the other over        *)
(* FewFiles.                                                               *)

InitScope ==
    /\ fs \in {FileSystem(d, c) : d \in FileContents, c \in FewFiles}
             \cup {FileSystem(d, c) : d \in FewFiles, c \in FileContents}
    /\ ProcessStart
    /\ FilterIdle

NextScope ==
    \/ Import
    \/ \E scope_name \in {NoName} \cup ScopeNames, scope_file \in {NoFile, CustomPath} :
           load_and_set_scope(scope_name, scope_file)

SpecScope == InitScope /\ [][NextScope]_vars

---------------------------------------------------------------------------
(* What the claims call a scope file's shape and a scope's mapping.        *)

\* a well-formed 'allowed_databases': an object of lists of table names
WellFormedDatabases(ad) ==
    /\ ad.t = "obj"
    /\ \A i \in 1..Len(ad.items) : ad.items[i].v.t = "list"

\* the ScopeMapping a well-formed 'allowed_databases' denotes: each database
\* with the set of the table names listed for it, names as written
MappingOf(ad) ==
    Dict([db \in {ad.items[i].k : i \in 1..Len(ad.items)} |->
            UNION {Range(ad.items[i].v.elems) :
                      i \in {j \in 1..Len(ad.items) : ad.items[j].k = db}}])

\* a well-formed scope of a multi-scope file
WellFormedScope(scope) ==
    /\ scope.t = "obj"
    /\ HasKey(scope, "allowed_databases")
    /\ WellFormedDatabases(Lookup(scope, "allowed_databases"))

\* the legacy single-mapping shape
IsLegacyFile(content) ==
    /\ content.kind = "json"
    /\ content.value.t = "obj"
    /\ HasKey(content.value, "allowed_databases")
    /\ ~HasKey(content.value, "scopes")
    /\ WellFormedDatabases(Lookup(content.value, "allowed_databases"))

\* the multi-scope shape
IsMultiScopeFile(content) ==
    /\ content.kind = "json"
    /\ content.value.t = "obj"
    /\ HasKey(content.value, "scopes")
    /\ ~HasKey(content.value, "allowed_databases")
    /\ Lookup(content.value, "scopes").t = "obj"

ScopesOf(content) == Lookup(content.value, "scopes")

\* a multi-scope file all of whose scopes are well-formed
IsValidMultiScopeFile(content) ==
    /\ IsMultiScopeFile(content)
    /\ \A i \in 1..Len(ScopesOf(content).items) :
           WellFormedScope(ScopesOf(content).items[i].v)

\* a load_and_set_scope call has returned or raised (the import-time call included)
Called == pc # "import"
\* the last call was made with a scope name and no custom file
CalledByName == Called /\ call.scope_file = NoFile /\ call.scope_name # NoName

---------------------------------------------------------------------------
(* Claims about scope resolution, checked under SpecScope.                 *)

\* C3 (as claimed): after load_and_set_scope is called with a scope name that
\* a valid multi-scope default file does not define, the ActiveScope is None.
C3_UnknownScopeGivesNone ==
    (/\ CalledByName
     /\ IsValidMultiScopeFile(fs[CONFIG_FILE_PATH])
     /\ ~HasKey(ScopesOf(fs[CONFIG_FILE_PATH]), call.scope_name))
    => ALLOWED_TABLES_BY_DB = None

\* C4 (as claimed): after a call whose selected scope file does not exist or
\* is not valid JSON, the ActiveScope is None, in every selection mode.
C4_MissingOrInvalidFileGivesNone ==
    (Called /\ FileRead(fs, call).kind \in {"missing", "invalid"})
    => ALLOWED_TABLES_BY_DB = None

\* C6 (as claimed): load_and_set_scope never raises, whatever the scope file
\* holds and whatever the selector is.
C6_NeverRaises == outcome # "raise" /\ pc # "crashed"

\* C8 (as claimed): a call with a scope name that the valid multi-scope file
\* it reads (default or custom) defines leaves the ActiveScope equal to that
\* scope's mapping, names as written.
C8_NamedScopeAnyFile ==
    (/\ Called
     /\ call.scope_name # NoName
     /\ IsValidMultiScopeFile(FileRead(fs, call))
     /\ HasKey(ScopesOf(FileRead(fs, call)), call.scope_name))
    => ALLOWED_TABLES_BY_DB =
           MappingOf(Lookup(Lookup(ScopesOf(FileRead(fs, call)), call.scope_name),
                            "allowed_databases"))

\* C8 (amended): a call with a scope name and no custom file, where the
\* default file is a multi-scope file that defines that scope, well-formed,
\* leaves the ActiveScope equal to that scope's mapping, names as written.
C8_NamedScopeDefaultFile ==
    (/\ CalledByName
     /\ IsMultiScopeFile(fs[CONFIG_FILE_PATH])
     /\ HasKey(ScopesOf(fs[CONFIG_FILE_PATH]), call.scope_name)
     /\ WellFormedScope(Lookup(ScopesOf(fs[CONFIG_FILE_PATH]), call.scope_name)))
    => ALLOWED_TABLES_BY_DB =
           MappingOf(Lookup(Lookup(ScopesOf(fs[CONFIG_FILE_PATH]), call.scope_name),
                            "allowed_databases"))

\* C8 witness: the second scope of the default file was selected by name, and
\* its mapping, with an upper-case table and database name, is in effect.
C8_Witness ==
    /\ CalledByName
    /\ IsMultiScopeFile(fs[CONFIG_FILE_PATH])
    /\ Len(ScopesOf(fs[CONFIG_FILE_PATH]).items) = 2
    /\ ScopesOf(fs[CONFIG_FILE_PATH]).items[2].k = call.scope_name
    /\ ScopesOf(fs[CONFIG_FILE_PATH]).items[1].v = ScopeOf(MapA)
    /\ ScopesOf(fs[CONFIG_FILE_PATH]).items[2].v = ScopeOf(MapB)
    /\ outcome = "set"
    /\ ALLOWED_TABLES_BY_DB = Dict(("db1" :> {"t2", "T1"}) @@ ("DB2" :> {}))

\* C9 (as claimed): after a call that reads a file of the legacy shape, the
\* ActiveScope equals that file's mapping, in every selection mode.
C9_LegacyFileGivesItsMapping ==
    (Called /\ IsLegacyFile(FileRead(fs, call)))
    => ALLOWED_TABLES_BY_DB =
           MappingOf(Lookup(FileRead(fs, call).value, "allowed_databases"))

\* C10: after a call without a scope name that reads a multi-scope file whose
\* first declared scope is well-formed, the ActiveScope equals the mapping of
\* that first scope.
C10_FirstDeclaredScope ==
    (/\ Called
     /\ call.scope_name = NoName
     /\ IsMultiScopeFile(FileRead(fs, call))
     /\ Len(ScopesOf(FileRead(fs, call)).items) >= 1
     /\ WellFormedScope(ScopesOf(FileRead(fs, call)).items[1].v))
    => ALLOWED_TABLES_BY_DB =
           MappingOf(Lookup(ScopesOf(FileRead(fs, call)).items[1].v,
                            "allowed_databases"))

\* C10 witness: a custom file declaring two scopes with different mappings
\* was read without a scope name, after the default file had put the second
\* one's mapping in effect; the first declared scope's mapping is in effect.
C10_Witness ==
    /\ Called
    /\ call = [scope_name |-> NoName, scope_file |-> CustomPath]
    /\ fs[CONFIG_FILE_PATH] = Legacy(MapA)
    /\ fs[CustomPath] = Multi(<<Member("prod", ScopeOf(MapB)), Member("dev", ScopeOf(MapA))>>)
    /\ ALLOWED_TABLES_BY_DB = Dict(("db1" :> {"t2", "T1"}) @@ ("DB2" :> {}))

---------------------------------------------------------------------------
(* response_filter.py: the filter as a function of the global's value and  *)
(* the result.                                                             *)

\* c.lower() for the column names the model uses
Lower(c) ==
    CASE c = "Database" -> "database"
      [] c = "NAME" -> "name"
      [] c = "Table" -> "table"
      [] OTHER -> c

LowerAll(cols) == [i \in 1..Len(cols) |-> Lower(cols[i])]

\* list.index(x): the first position of x
Index(s, x) == CHOOSE i \in 1..Len(s) : s[i] = x /\ \A j \in 1..(i - 1) : s[j] # x

\* the fingerprint None of an unrecognized result
NoFingerprint == "None"

\* lines 50-70 with the test of lines 67-68 ahead of the test of lines 63-64
identify_response_typeTableFirst(res) ==
    LET cols == LowerAll(res.column_names)
    IN  IF Len(cols) = 1 THEN "single_column_listing"
        ELSE IF "database" \in Range(cols) /\ "table" \in Range(cols)
             THEN "database_and_table"
        ELSE IF "database" \in Range(cols) /\ "name" \in Range(cols)
             THEN "database_and_name"
        ELSE NoFingerprint

\* lines 50-70
identify_response_type(res) ==
    LET cols == LowerAll(res.column_names)
    IN  IF Len(cols) = 1 THEN "single_column_listing"
        ELSE IF "database" \in Range(cols) /\ "name" \in Range(cols)
             THEN "database_and_name"
        ELSE IF "database" \in Range(cols) /\ "table" \in Range(cols)
             THEN "database_and_table"
        ELSE NoFingerprint

\* dict.get(k, set())
GetOrEmptySet(m, k) == IF k \in DOMAIN m THEN m[k] ELSE {}

\* s back to front
Reversed(s) == [i \in 1..Len(s) |-> s[Len(s) + 1 - i]]

\* lines 87-95 with the comprehension walking the rows back to front
SingleColumnRowsReversed(rows, d, v) ==
    LET valid_databases == DOMAIN d
        valid_tables == UNION {v[db] : db \in DOMAIN v}
        KeepRow(r) == r[1] \in valid_databases \/ r[1] \in valid_tables
    IN  SelectSeq(Reversed(rows), KeepRow)

\* lines 87-95, with the dict d read at line 87 and the dict v read at line 89
SingleColumnRows(rows, d, v) ==
    LET valid_databases == DOMAIN d
        valid_tables == UNION {v[db] : db \in DOMAIN v}
        KeepRow(r) == r[1] \in valid_databases \/ r[1] \in valid_tables
    IN  SelectSeq(rows, KeepRow)

\* the condition of lines 103-104 and 113-114 for one row, with the dict d
\* read by its first conjunct and the dict v read by its second
KeepsRow(r, db_idx, col_idx, d, v) ==
    /\ r[db_idx] \in DOMAIN d
    /\ r[col_idx] \in GetOrEmptySet(v, r[db_idx])

\* the column a fingerprint filters on beside the database column
SecondColumn(fingerprint) ==
    IF fingerprint = "database_and_name" THEN "name" ELSE "table"

\* lines 72-118 with the comprehensions starting at the second row
apply_filterSkippingFirst(m, res, fingerprint) ==
    LET cols_lower == LowerAll(res.column_names)
        rows == IF res.result_rows = <<>> THEN <<>> ELSE Tail(res.result_rows)
    IN  IF fingerprint = "single_column_listing"
        THEN SingleColumnRows(rows, m, m)
        ELSE IF fingerprint \in {"database_and_name", "database_and_table"}
        THEN LET db_idx == Index(cols_lower, "database")
                 col_idx == Index(cols_lower, SecondColumn(fingerprint))
                 KeepRow(r) == KeepsRow(r, db_idx, col_idx, m, m)
             IN  SelectSeq(rows, KeepRow)
        ELSE res.result_rows

\* lines 72-118, the global holding the dict m throughout
apply_filter(m, res, fingerprint) ==
    LET cols_lower == LowerAll(res.column_names)
        rows == res.result_rows
    IN  IF fingerprint = "single_column_listing"
        THEN SingleColumnRows(rows, m, m)
        ELSE IF fingerprint \in {"database_and_name", "database_and_table"}
        THEN LET db_idx == Index(cols_lower, "database")
                 col_idx == Index(cols_lower, SecondColumn(fingerprint))
                 KeepRow(r) == KeepsRow(r, db_idx, col_idx, m, m)
             IN  SelectSeq(rows, KeepRow)
        ELSE rows

\* filter_result without the early return of lines 30-31: None is filtered
\* as a scope that allows nothing
filter_resultWithoutNoneCheck(a, res) ==
    LET m == IF a.tag = "dict" THEN a.m ELSE EmptyMap
        fingerprint == identify_response_type(res)
    IN  IF fingerprint # NoFingerprint
        THEN apply_filter(m, res, fingerprint)
        ELSE res.result_rows

\* lines 21-48, the global holding the value a throughout
filter_result(a, res) ==
    IF ~ScopeTruthy(a) THEN res.result_rows
    ELSE LET fingerprint == identify_response_type(res)
         IN  IF fingerprint # NoFingerprint
             THEN apply_filter(a.m, res, fingerprint)
             ELSE res.result_rows

---------------------------------------------------------------------------
(* The results and the scopes the filter is checked on.                    *)

RowValues == {"db1", "db2", "t1"}

ColumnLists ==
    {<<"name">>, <<"database">>, <<"Table">>,
     <<"database", "name">>, <<"NAME", "Database">>, <<"Database", "Table">>,
     <<"database", "engine">>, <<"count", "sum">>,
     <<"database", "table", "name">>, <<>>}

RowsOf(n) == UNION {[1..k -> [1..n -> RowValues]] : k \in 0..MaxRows}

Results ==
    UNION {{[column_names |-> cols, result_rows |-> rows] : rows \in RowsOf(Len(cols))} :
              cols \in ColumnLists}

\* the legacy scope files over two databases and two tables: every ScopeMapping
\* over them is the mapping of one of these files
FilterTableLists == {<<>>, <<"t1">>, <<"t2">>, <<"t1", "t2">>}
FilterDbSeqs == {<<>>, <<"db1">>, <<"db2">>, <<"db1", "db2">>}
FilterFiles ==
    UNION {{Legacy(JObj([i \in 1..Len(ds) |-> Member(ds[i], JList(tl[i]))])) :
                tl \in [1..Len(ds) -> FilterTableLists]} : ds \in FilterDbSeqs}

\* the process after its import-time load of the default file
Imported(file) ==
    LET r == Resolve(FileSystem(file, Missing), NoName, NoFile)
    IN  /\ fs = FileSystem(file, Missing)
        /\ ALLOWED_TABLES_BY_DB = IF r.act = "set" THEN r.value ELSE None
        /\ pc = "ready"
        /\ call = [scope_name |-> NoName, scope_file |-> NoFile]
        /\ outcome = r.act
        /\ log = r.log

---------------------------------------------------------------------------
(* The filter alone: one filter_result call on every result, under every   *)
(* value of the global, with no load_and_set_scope call running beside it. *)

InitFilter ==
    /\ \E file \in FilterFiles \cup {Missing} : Imported(file)
    /\ result \in Results
    /\ fpc = "idle"
    /\ flocal = NoLocals
    /\ returned = <<>>
    /\ observed = {}
    /\ refiltered = <<>>

FilterCall ==
    /\ fpc = "idle"
    /\ fpc' = "done"
    /\ returned' = filter_result(ALLOWED_TABLES_BY_DB, result)
    /\ observed' = {ALLOWED_TABLES_BY_DB}
    /\ UNCHANGED <<scopeVars, refiltered, result, flocal>>

\* a second filter_result call, on a result with the same column names whose
\* rows are the rows the first call returned, the global not re-set in between
FilterAgain ==
    /\ fpc = "done"
    /\ fpc' = "again"
    /\ refiltered' = filter_result(ALLOWED_TABLES_BY_DB,
                                   [result EXCEPT !.result_rows = returned])
    /\ UNCHANGED <<scopeVars, result, flocal, returned, observed>>

NextFilter == FilterCall \/ FilterAgain

SpecFilter == InitFilter /\ [][NextFilter]_vars

---------------------------------------------------------------------------
(* Claims about the filter, checked under SpecFilter.                      *)

\* the filter_result call has returned
Filtered == fpc = "done"
\* the ActiveScope is a ScopeMapping
ScopeIsMapping == ALLOWED_TABLES_BY_DB.tag = "dict"
\* the position of the column whose lower-cased name is c
ColumnOf(c) == Index(LowerAll(result.column_names), c)
\* row r is among the rows returned
Retained(r) == r \in Range(returned)

\* C1 (as claimed): under every ScopeMapping, the one with no databases
\* included, a database_and_name (database_and_table) result keeps a row iff
\* its database value is a key of the scope and its name (table) value is in
\* that database's table set.
C1_TwoColumnRule ==
    (/\ Filtered
     /\ ScopeIsMapping
     /\ identify_response_type(result) \in {"database_and_name", "database_and_table"})
    => \A r \in Range(result.result_rows) :
           Retained(r) <=>
               /\ r[ColumnOf("database")] \in DOMAIN ALLOWED_TABLES_BY_DB.m
               /\ r[ColumnOf(SecondColumn(identify_response_type(result)))]
                      \in ALLOWED_TABLES_BY_DB.m[r[ColumnOf("database")]]

\* C2 (as claimed): under every ScopeMapping, a one-column result keeps a row
\* iff its value is a database of the scope or a table of some database of
\* the scope.
C2_SingleColumnRule ==
    (/\ Filtered
     /\ ScopeIsMapping
     /\ Len(result.column_names) = 1)
    => \A r \in Range(result.result_rows) :
           Retained(r) <=>
               \/ r[1] \in DOMAIN ALLOWED_TABLES_BY_DB.m
               \/ \E db \in DOMAIN ALLOWED_TABLES_BY_DB.m :
                      r[1] \in ALLOWED_TABLES_BY_DB.m[db]

\* C7: filter_result returns exactly the input rows when the ActiveScope is
\* None, whatever the fingerprint, and when the fingerprint is unrecognized,
\* whatever the ActiveScope.
C7_PassThrough ==
    (/\ Filtered
     /\ \/ ALLOWED_TABLES_BY_DB = None
        \/ identify_response_type(result) = NoFingerprint)
    => returned = result.result_rows

\* C7 witness: an unrecognized two-column result came back whole under a scope
\* that allows neither of its rows' values, none of which it would keep.
C7_Witness ==
    /\ Filtered
    /\ ALLOWED_TABLES_BY_DB = Dict("db1" :> {"t1"})
    /\ result = [column_names |-> <<"database", "engine">>,
                 result_rows |-> <<<<"db2", "t1">>, <<"db1", "db2">>>>]
    /\ returned = <<<<"db2", "t1">>, <<"db1", "db2">>>>

\* s is t with some of its elements left out: the elements of s are elements
\* of t, taken at strictly increasing positions
IsSubsequence(s, t) ==
    \E at \in [1..Len(s) -> 1..Len(t)] :
        /\ \A i, j \in 1..Len(s) : i < j => at[i] < at[j]
        /\ \A i \in 1..Len(s) : s[i] = t[at[i]]

\* C11: under every ActiveScope and for every result, the rows filter_result
\* returns are a subsequence of the input rows: each is an input row with its
\* values unaltered, none is inserted or duplicated, and they keep the input's
\* relative order.
C11_ReturnsSubsequence ==
    Filtered => IsSubsequence(returned, result.result_rows)

\* C11 witness: of two rows of a database_and_name result the filter dropped
\* the first and returned the second as it was.
C11_Witness ==
    /\ Filtered
    /\ ALLOWED_TABLES_BY_DB = Dict("db1" :> {"t1"})
    /\ result = [column_names |-> <<"database", "name">>,
                 result_rows |-> <<<<"db2", "t1">>, <<"db1", "t1">>>>]
    /\ returned = <<<<"db1", "t1">>>>

\* the second filter_result call has returned
Refiltered == fpc = "again"

\* C12: filtering is idempotent: under every ActiveScope (None, the empty
\* mapping, a non-empty mapping) and for every result shape, filter_result on
\* the rows filter_result returned, with the same column names and the same
\* ActiveScope, returns the identical row list.
C12_Idempotent ==
    Refiltered => refiltered = returned

\* C12 witness: the first call dropped one of two rows of a one-column result,
\* and the second call, given the row that was left, returned it again.
C12_Witness ==
    /\ Refiltered
    /\ ALLOWED_TABLES_BY_DB = Dict("db1" :> {"t1"})
    /\ result = [column_names |-> <<"name">>,
                 result_rows |-> <<<<"db2">>, <<"t1">>>>]
    /\ returned = <<<<"t1">>>>
    /\ refiltered = <<<<"t1">>>>

\* filter_result went past line 30 and called _identify_response_type
Identified == Filtered /\ ScopeTruthy(ALLOWED_TABLES_BY_DB)

\* C13: the fingerprint is that of the lower-cased column names alone, whatever
\* the rows are: single_column_listing for exactly one column, whatever its
\* name; otherwise database_and_name when 'database' and 'name' are both
\* among the names, 'table' present or not; otherwise database_and_table when
\* 'database' and 'table' both are; otherwise unrecognized.
C13_FingerprintPriority ==
    Identified =>
        LET cols == LowerAll(result.column_names)
            names == Range(cols)
            fingerprint == identify_response_type(result)
        IN  /\ fingerprint =
                   identify_response_type([column_names |-> cols, result_rows |-> <<>>])
            /\ Len(cols) = 1 => fingerprint = "single_column_listing"
            /\ (Len(cols) # 1 /\ {"database", "name"} \subseteq names)
                   => fingerprint = "database_and_name"
            /\ (Len(cols) # 1 /\ "name" \notin names
                    /\ {"database", "table"} \subseteq names)
                   => fingerprint = "database_and_table"
            /\ (Len(cols) # 1 /\ ~({"database", "name"} \subseteq names)
                    /\ ~({"database", "table"} \subseteq names))
                   => fingerprint = NoFingerprint

\* C13 witness: a result with 'database', 'table' and 'name' columns was
\* filtered by its name column: the row whose name is an allowed table was
\* kept and the row whose table is one was dropped.
C13_Witness ==
    /\ Identified
    /\ ALLOWED_TABLES_BY_DB = Dict("db1" :> {"t1"})
    /\ result = [column_names |-> <<"database", "table", "name">>,
                 result_rows |-> <<<<"db1", "t1", "db2">>, <<"db1", "db2", "t1">>>>]
    /\ returned = <<<<"db1", "db2", "t1">>>>

---------------------------------------------------------------------------
(* The whole program: one filter_result call, each of its reads of         *)
(* config.ALLOWED_TABLES_BY_DB a step of its own, beside load_and_set_scope *)
(* calls that re-set the global.  load_and_set_scope rebinds the global to *)
(* a new dict and never mutates a dict, so a dict (or the keys view of     *)
(* line 87) that the filter holds keeps its content.                       *)

MapD == JObj(<<Member("db2", JList(<<"t2">>))>>)

SwitchDefaultFiles == {Legacy(MapA), Missing}
SwitchCustomFiles == {Legacy(MapD), Missing}

SwitchColumnLists ==
    {<<"name">>, <<"database", "name">>, <<"Table", "Database">>, <<"database", "engine">>}

SwitchResults ==
    UNION {{[column_names |-> cols, result_rows |-> rows] : rows \in RowsOf(Len(cols))} :
              cols \in SwitchColumnLists}

Init ==
    /\ fs \in {FileSystem(d, c) : d \in SwitchDefaultFiles, c \in SwitchCustomFiles}
    /\ ProcessStart
    /\ FilterIdle

\* filter_result(result) is called
FilterStart(res) ==
    /\ pc = "ready"
    /\ fpc = "idle"
    /\ result' = res
    /\ fpc' = "line30"
    /\ observed' = {ALLOWED_TABLES_BY_DB}
    /\ UNCHANGED <<scopeVars, refiltered, flocal, returned>>

\* the filter returns rows
Return(rows) ==
    /\ returned' = rows
    /\ fpc' = "done"

\* lines 30-41 and 78-80: the read of the global at line 30, then the
\* fingerprint and the column positions, which read no global
Line30 ==
    /\ fpc = "line30"
    /\ LET fingerprint == identify_response_type(result)
       IN  IF ~ScopeTruthy(ALLOWED_TABLES_BY_DB) \/ fingerprint = NoFingerprint
           THEN Return(result.result_rows) /\ UNCHANGED flocal
           ELSE /\ flocal' = [NoLocals EXCEPT !.fingerprint = fingerprint, !.i = 1]
                /\ fpc' = IF fingerprint = "single_column_listing"
                          THEN "line87" ELSE "line103"
                /\ UNCHANGED returned
    /\ UNCHANGED <<scopeVars, refiltered, result, observed>>

\* line 87: valid_databases = config.ALLOWED_TABLES_BY_DB.keys()
Line87 ==
    /\ fpc = "line87"
    /\ flocal' = [flocal EXCEPT !.valid_databases = DOMAIN ALLOWED_TABLES_BY_DB.m]
    /\ fpc' = "line89"
    /\ UNCHANGED <<scopeVars, refiltered, result, returned, observed>>

\* lines 88-95: config.ALLOWED_TABLES_BY_DB.values() is read once, then the
\* rows are selected
Line89 ==
    /\ fpc = "line89"
    /\ Return(SingleColumnRows(result.result_rows,
                               [db \in flocal.valid_databases |-> {}],
                               ALLOWED_TABLES_BY_DB.m))
    /\ UNCHANGED <<scopeVars, refiltered, result, flocal, observed>>

\* lines 103 and 113: for the next row, r[db_idx] in config.ALLOWED_TABLES_BY_DB;
\* the comprehension ends after the last row
Line103 ==
    /\ fpc = "line103"
    /\ LET db_idx == Index(LowerAll(result.column_names), "database")
       IN  IF flocal.i > Len(result.result_rows)
           THEN Return(flocal.kept) /\ UNCHANGED flocal
           ELSE IF result.result_rows[flocal.i][db_idx] \in DOMAIN ALLOWED_TABLES_BY_DB.m
           THEN fpc' = "line104" /\ UNCHANGED <<flocal, returned>>
           ELSE /\ flocal' = [flocal EXCEPT !.i = @ + 1]
                /\ UNCHANGED <<fpc, returned>>
    /\ UNCHANGED <<scopeVars, refiltered, result, observed>>

\* lines 104 and 114: r[name_idx] in config.ALLOWED_TABLES_BY_DB.get(r[db_idx], set())
Line104 ==
    /\ fpc = "line104"
    /\ LET cols_lower == LowerAll(result.column_names)
           db_idx == Index(cols_lower, "database")
           col_idx == Index(cols_lower, SecondColumn(flocal.fingerprint))
           r == result.result_rows[flocal.i]
       IN  flocal' = [flocal EXCEPT
                        !.i = @ + 1,
                        !.kept = IF r[col_idx] \in GetOrEmptySet(ALLOWED_TABLES_BY_DB.m, r[db_idx])
                                 THEN Append(@, r) ELSE @]
    /\ fpc' = "line103"
    /\ UNCHANGED <<scopeVars, refiltered, result, returned, observed>>

Next ==
    \/ Import
    \/ \E scope_file \in {NoFile, CustomPath} : load_and_set_scope(NoName, scope_file)
    \/ \E res \in SwitchResults : FilterStart(res)
    \/ Line30
    \/ Line87
    \/ Line89
    \/ Line103
    \/ Line104

Spec == Init /\ [][Next]_vars

\* a filter_result call beside which no load_and_set_scope call re-set the
\* global returns what filter_result returns as a function
StepsAgreeWithFunction ==
    (fpc = "done" /\ Cardinality(observed) = 1)
    => \A a \in observed : returned = filter_result(a, result)

\* C5 (as claimed): the rows a filter_result call returns are the rows that
\* filtering the whole input gives under one of the values the global held
\* during the call (the old mapping or the new one).
C5_OldOrNewMapping ==
    fpc = "done" => \E a \in observed : returned = filter_result(a, result)

============================================================================
